---- MODULE Spec2Model ----
(***************************************************************************)
(* Mondeto-Signaling: the relay Session of src/app.ts and src/app.js.      *)
(*                                                                         *)
(* The state is the Session object (serverWS, clients, nextNodeID,         *)
(* iceServerUrl) together with the WebSocket connections the two           *)
(* WebSocket.Server pools hand to it.  Every action is one event handler   *)
(* run to completion (Node's single-threaded event loop): a 'connection'   *)
(* event of one of the two pools, or a 'message' or 'close' event of one   *)
(* connection.  ws.send(text) is modelled by appending the text to the     *)
(* outbox of the connection.                                               *)
(***************************************************************************)
EXTENDS Integers, Sequences, FiniteSets, TLC

\* --------------------------------------------------------------- bounds
\* Number of WebSocket connections that are ever accepted.
MaxConns == 3
\* Number of 'message' events that are ever delivered.
MaxMsgs == 2

\* ------------------------------------------------------ program constants
serverNodeID == 0

\* The value of a null reference (this.serverWS = null).
NULL == 0

\* const iceServerUrl of src/app.js; app.ts reads it from config.yml, taken
\* here to hold the same value.
DefaultIceServerUrl == "stun:stun.l.google.com:19302"

\* The two builds of the Session.
Impls == {"ts", "js"}

\* ------------------------------------------------------------ JS values
\* A scalar JSON value: a number or a string.
Num(n) == [t |-> "num", n |-> n, s |-> ""]
Str(s) == [t |-> "str", n |-> 0, s |-> s]

\* The property table of an object without properties.
NoFields == [k \in {} |-> Num(0)]

\* A JavaScript value as the handlers see it: null, a primitive, an array
\* (its elements in items, its named properties in fields) or a plain object
\* (its properties in fields).
Null == [kind |-> "null", prim |-> Num(0), items |-> <<>>, fields |-> NoFields]
Prim(p) == [kind |-> "prim", prim |-> p, items |-> <<>>, fields |-> NoFields]
Arr(xs) == [kind |-> "arr", prim |-> Num(0), items |-> xs, fields |-> NoFields]
Obj(f) == [kind |-> "obj", prim |-> Num(0), items |-> <<>>, fields |-> f]

\* obj[k] = x
Put(f, k, x) == [j \in DOMAIN f \cup {k} |-> IF j = k THEN x ELSE f[j]]
\* the properties of obj other than k
Without(f, k) == [j \in DOMAIN f \ {k} |-> f[j]]

\* A text on the wire: either the JSON text of value v, or a text that is no
\* JSON at all.
Text(v) == [ok |-> TRUE, v |-> v]
Garbage == [ok |-> FALSE, v |-> Null]

\* JSON.stringify(v): an array is written as its elements only, its named
\* properties are not part of the text.
JSONstringify(v) ==
  IF v.kind = "arr" THEN Text([v EXCEPT !.fields = NoFields]) ELSE Text(v)

\* JSON.parse(text) throws a SyntaxError on a text that is no JSON.
JSONparseThrows(text) == ~text.ok
JSONparse(text) == text.v

\* ------------------------------------------------- what the peers may send
\* The nodeID values of incoming messages: the reserved 0, every number the
\* run can assign, and a string that reads like an assigned number.
MsgIDs == {Num(n) : n \in 0..(MaxConns - 1)} \cup {Str("1")}
\* {"nodeID": id, "foo": "bar"} and {"foo": "bar"}
MsgObjects ==
  {Obj([nodeID |-> id, foo |-> Str("bar")]) : id \in MsgIDs}
    \cup {Obj([foo |-> Str("bar")])}
\* no JSON, null, 5, [1], and the objects
Incoming ==
  {Garbage, Text(Null), Text(Prim(Num(5))), Text(Arr(<<1>>))}
    \cup {Text(o) : o \in MsgObjects}
\* what arrives on a connection nobody listens to
Unheard == {Garbage, Text(Obj([nodeID |-> Num(1), foo |-> Str("bar")]))}

\* ---------------------------------------------------------------- state
VARIABLES
  impl,          \* which build runs: app.ts or app.js
  configUrl,     \* the module-level const iceServerUrl
  iceServerUrl,  \* Session.iceServerUrl
  serverWS,      \* Session.serverWS: a connection or NULL
  clients,       \* Session.clients: Map<number, WebSocket>
  nextNodeID,    \* Session.nextNodeID
  conn,          \* per connection: its pool, its handlers, its closure's nodeID
  nextConn,      \* the next connection the acceptor will hand over
  outbox,        \* per connection: the texts ws.send() was called with, in order
  last,          \* the event handled last, with the state it started from
  crashed,       \* an error escaped a handler (uncaught exception)
  assigned,      \* the nodeIDs handed out so far, in admission order
  closedIDs,     \* the nodeIDs whose connection has closed
  msgs           \* number of 'message' events delivered so far

vars == <<impl, configUrl, iceServerUrl, serverWS, clients, nextNodeID, conn,
          nextConn, outbox, last, crashed, assigned, closedIDs, msgs>>

Conns == 1..MaxConns

\* A connection the acceptor has not produced yet.
Fresh == [pool |-> "none", handlers |-> "none", open |-> FALSE, nodeID |-> 0]

NoClients == [k \in {} |-> NULL]

\* One ws.send(text) call.
Send(to, text) == [to |-> to, text |-> text]

\* The record of one handled event: the handler's name, the connection and
\* the text of the event, the Session as the handler found it, the sends the
\* handler made, and whether its try block ended in its catch clause.
Event(op, ws, data, sends, caught) ==
  [op |-> op, ws |-> ws, data |-> data, serverWS |-> serverWS,
   clients |-> clients, nextNodeID |-> nextNodeID, sends |-> sends,
   caught |-> caught]

\* outbox after the sends of one handler run
Deliver(sends) ==
  [c \in Conns |->
     outbox[c] \o [i \in 1..Len(SelectSeq(sends, LAMBDA m : m.to = c)) |->
                     SelectSeq(sends, LAMBDA m : m.to = c)[i].text]]

\* -------------------------------------------------------------- messages
MsgError == Text(Obj([type |-> Str("error")]))
MsgHello(id, url) ==
  Text(Obj([type |-> Str("hello"), nodeID |-> Num(id), iceServerUrl |-> Str(url)]))
MsgClientConnected(id) ==
  Text(Obj([type |-> Str("clientConnected"), nodeID |-> Num(id)]))

\* ------------------------------------------------------------------ Init
\* new Session(iceServerUrl): app.ts reads the URL from config.yml, app.js
\* has it as a literal.
Init ==
  /\ impl \in Impls
  /\ configUrl = DefaultIceServerUrl
  /\ iceServerUrl = configUrl
  /\ serverWS = NULL
  /\ clients = NoClients
  /\ nextNodeID = serverNodeID + 1
  /\ conn = [c \in Conns |-> Fresh]
  /\ nextConn = 1
  /\ outbox = [c \in Conns |-> <<>>]
  /\ last = [op |-> "constructor", ws |-> NULL, data |-> Garbage,
             serverWS |-> NULL, clients |-> NoClients,
             nextNodeID |-> serverNodeID + 1, sends |-> <<>>, caught |-> FALSE]
  /\ crashed = FALSE
  /\ assigned = <<>>
  /\ closedIDs = {}
  /\ msgs = 0

\* ----------------------------------------------------------- the handlers
\* Mutant: the check of the slot is missing, every server connection attaches.
serverAlwaysAccepted == FALSE

\* if (this.serverWS !== null): only one server can connect
serverAlreadyConnected == serverWS # NULL

\* Mutant: the check for a server is missing.
serverNeverChecked == FALSE

\* if (this.serverWS === null): no server
serverNotReady == serverWS = NULL

\* ws.on('message', ...) and ws.on('close', ...) of an accepted connection
Accepted(pool, id) ==
  [pool |-> pool, handlers |-> pool, open |-> TRUE, nodeID |-> id]
\* Mutant: the listeners are registered before the admission check.
RejectedButListening(pool) ==
  [pool |-> pool, handlers |-> pool, open |-> TRUE, nodeID |-> 0]

\* a connection the handler returned from before registering anything
Rejected(pool) ==
  [pool |-> pool, handlers |-> "none", open |-> TRUE, nodeID |-> 0]

\* wssForServer 'connection': handleServerConnection(ws)
handleServerConnection(ws) ==
  /\ ~crashed
  /\ ws = nextConn
  /\ ws \in Conns
  /\ nextConn' = nextConn + 1
  /\ IF serverAlreadyConnected
       THEN /\ last' = Event("handleServerConnection", ws, Garbage,
                             <<Send(ws, MsgError)>>, FALSE)
            /\ outbox' = Deliver(<<Send(ws, MsgError)>>)
            /\ conn' = [conn EXCEPT ![ws] = Rejected("server")]
            /\ UNCHANGED serverWS
       ELSE /\ serverWS' = ws
            /\ conn' = [conn EXCEPT ![ws] = Accepted("server", serverNodeID)]
            /\ last' = Event("handleServerConnection", ws, Garbage,
                             <<Send(ws, MsgHello(serverNodeID, configUrl))>>, FALSE)
            /\ outbox' = Deliver(<<Send(ws, MsgHello(serverNodeID, configUrl))>>)
  /\ UNCHANGED <<impl, configUrl, iceServerUrl, clients, nextNodeID, crashed,
                 assigned, closedIDs, msgs>>

\* The URL of a client's hello: this.iceServerUrl in app.ts, the module-level
\* const in app.js.
ClientHelloUrlIn(build) == IF build = "ts" THEN iceServerUrl ELSE configUrl
ClientHelloUrl == ClientHelloUrlIn(impl)

\* Mutant: the smallest node ID above the registered ones is taken again.
NewNodeIDReused == Cardinality(DOMAIN clients) + 1

\* const nodeID = this.nextNodeID
NewNodeID == nextNodeID

\* Mutant: the counter is not advanced.
IncrementForgotten(n) == n

\* this.nextNodeID++
Increment(n) == n + 1

\* Mutant: the server is told this.nextNodeID as it is after the increment.
ClientConnectionSendsStale(ws, nodeID) ==
  <<Send(ws, MsgHello(nodeID, ClientHelloUrl))>>
    \o (IF serverWS = NULL THEN <<>>
        ELSE <<Send(serverWS, MsgClientConnected(nodeID + 1))>>)

\* Mutant: the server is told before the new client gets its hello.
ClientConnectionSendsNotifyFirst(ws, nodeID) ==
  (IF serverWS = NULL THEN <<>>
   ELSE <<Send(serverWS, MsgClientConnected(nodeID))>>)
    \o <<Send(ws, MsgHello(nodeID, ClientHelloUrl))>>

\* Mutant: the server is not told about the new client.
ClientConnectionSendsSilent(ws, nodeID) ==
  <<Send(ws, MsgHello(nodeID, ClientHelloUrl))>>

\* The texts handleClientConnection sends for the node ID it assigned: hello
\* to the new client, then clientConnected to the server.  With no server,
\* this.serverWS.send is a call on null: the TypeError leaves the handler
\* after the hello.
ClientConnectionSendsIn(build, ws, nodeID) ==
  <<Send(ws, MsgHello(nodeID, ClientHelloUrlIn(build)))>>
    \o (IF serverWS = NULL THEN <<>>
        ELSE <<Send(serverWS, MsgClientConnected(nodeID))>>)
ClientConnectionSends(ws, nodeID) == ClientConnectionSendsIn(impl, ws, nodeID)

\* wssForClient 'connection': handleClientConnection(ws)
handleClientConnection(ws) ==
  /\ ~crashed
  /\ ws = nextConn
  /\ ws \in Conns
  /\ nextConn' = nextConn + 1
  /\ IF serverNotReady
       THEN /\ last' = Event("handleClientConnection", ws, Garbage,
                             <<Send(ws, MsgError)>>, FALSE)
            /\ outbox' = Deliver(<<Send(ws, MsgError)>>)
            /\ conn' = [conn EXCEPT ![ws] = Rejected("client")]
            /\ UNCHANGED <<clients, nextNodeID, assigned, crashed>>
       ELSE LET nodeID == NewNodeID IN
            /\ clients' = Put(clients, nodeID, ws)
            /\ nextNodeID' = Increment(nextNodeID)
            /\ assigned' = Append(assigned, nodeID)
            /\ last' = Event("handleClientConnection", ws, Garbage,
                             ClientConnectionSends(ws, nodeID), FALSE)
            /\ outbox' = Deliver(ClientConnectionSends(ws, nodeID))
            /\ crashed' = (serverWS = NULL)
            /\ conn' = [conn EXCEPT ![ws] =
                          IF serverWS = NULL THEN Rejected("client")
                          ELSE Accepted("client", nodeID)]
  /\ UNCHANGED <<impl, configUrl, iceServerUrl, serverWS, closedIDs, msgs>>

\* const { nodeID: nodeID, ...rest } = value: destructuring null throws a
\* TypeError; a value without the property gives undefined.
DestructureThrows(v) == v.kind = "null"
HasNodeID(v) == v.kind = "obj" /\ "nodeID" \in DOMAIN v.fields
\* Mutant: the whole object is forwarded, nodeID included.
RestKeepsNodeID(v) == Obj(v.fields)
Rest(v) == Obj(Without(v.fields, "nodeID"))

\* this.clients.has(nodeID): Map keys are compared by SameValueZero, so only
\* a number equal to a registered key is found.
ClientsHas(v) ==
  /\ HasNodeID(v)
  /\ v.fields["nodeID"].t = "num"
  /\ v.fields["nodeID"].n \in DOMAIN clients

\* The try block of handleServerMessage(data).
handleServerMessageTry(data) ==
  LET v == JSONparse(data) IN
  IF JSONparseThrows(data) \/ DestructureThrows(v)
    THEN [sends |-> <<>>, thrown |-> TRUE]
    ELSE IF ClientsHas(v)
      THEN [sends |-> <<Send(clients[v.fields["nodeID"].n], JSONstringify(Rest(v)))>>,
            thrown |-> FALSE]
      ELSE [sends |-> <<>>, thrown |-> FALSE]

\* Mutant: the catch clause answers the server with an error.
handleServerMessageReplies(data) ==
  LET r == handleServerMessageTry(data) IN
  [sends |-> IF r.thrown THEN <<Send(serverWS, MsgError)>> ELSE r.sends,
   caught |-> r.thrown, threw |-> FALSE]

\* handleServerMessage(data): try { ... } catch (e) { console.log(...) }
handleServerMessage(data) ==
  LET r == handleServerMessageTry(data) IN
  [sends |-> r.sends, caught |-> r.thrown, threw |-> FALSE]

\* msg["nodeID"] throws a TypeError when msg is null.
GetThrows(v) == v.kind = "null"
\* msg["nodeID"] = x throws a TypeError when msg is null, and in strict mode
\* ('use strict' in app.js, an ES module in app.ts) when msg is a primitive.
SetThrows(v) == v.kind \in {"null", "prim"}
SetNodeID(v, nodeID) == [v EXCEPT !.fields = Put(v.fields, "nodeID", Num(nodeID))]

\* this.serverWS?.send(text) of app.ts does nothing without a server;
\* this.serverWS.send(text) of app.js throws a TypeError there.
ServerSendThrowsIn(build) == build = "js" /\ serverWS = NULL
ServerSendThrows == ServerSendThrowsIn(impl)

\* Mutant: the stamped message also goes to another registered client.
handleClientMessageTryLeaks(build, nodeID, data) ==
  LET msg == JSONparse(data)
      others == DOMAIN clients \ {nodeID} IN
  IF JSONparseThrows(data) \/ GetThrows(msg) \/ SetThrows(msg)
    THEN [sends |-> <<>>, thrown |-> TRUE]
    ELSE IF serverWS = NULL
      THEN [sends |-> <<>>, thrown |-> ServerSendThrowsIn(build)]
      ELSE [sends |-> <<Send(serverWS, JSONstringify(SetNodeID(msg, nodeID)))>>
                        \o (IF others = {} THEN <<>>
                            ELSE <<Send(clients[CHOOSE k \in others : TRUE],
                                        JSONstringify(SetNodeID(msg, nodeID)))>>),
            thrown |-> FALSE]

\* The try block of handleClientMessage(nodeID, data), in either build.
handleClientMessageTryIn(build, nodeID, data) ==
  LET msg == JSONparse(data) IN
  IF JSONparseThrows(data) \/ GetThrows(msg) \/ SetThrows(msg)
    THEN [sends |-> <<>>, thrown |-> TRUE]
    ELSE IF serverWS = NULL
      THEN [sends |-> <<>>, thrown |-> ServerSendThrowsIn(build)]
      ELSE [sends |-> <<Send(serverWS, JSONstringify(SetNodeID(msg, nodeID)))>>,
            thrown |-> FALSE]
handleClientMessageTry(nodeID, data) ==
  handleClientMessageTryIn(impl, nodeID, data)

\* Mutant: handleClientMessage without its try/catch.
handleClientMessageUncaught(nodeID, data) ==
  LET r == handleClientMessageTry(nodeID, data) IN
  [sends |-> r.sends, caught |-> FALSE, threw |-> r.thrown]

\* Mutant: the catch clause is missing, in either build.
handleClientMessageInUncaught(build, nodeID, data) ==
  LET r == handleClientMessageTryIn(build, nodeID, data) IN
  [sends |-> r.sends, caught |-> FALSE, threw |-> r.thrown]

\* handleClientMessage(nodeID, data) as the given build runs it, from the
\* present state: try { ... } catch (e) { console.log(...) }
handleClientMessageIn(build, nodeID, data) ==
  LET r == handleClientMessageTryIn(build, nodeID, data) IN
  [sends |-> r.sends, caught |-> r.thrown, threw |-> FALSE]

\* handleClientMessage(nodeID, data) of the build that runs
handleClientMessage(nodeID, data) == handleClientMessageIn(impl, nodeID, data)

\* 'message' on a connection handleServerConnection accepted
serverMessage(ws, data) ==
  /\ ~crashed
  /\ msgs < MaxMsgs
  /\ conn[ws].open /\ conn[ws].handlers = "server"
  /\ LET r == handleServerMessage(data) IN
       /\ last' = Event("handleServerMessage", ws, data, r.sends, r.caught)
       /\ outbox' = Deliver(r.sends)
       /\ crashed' = r.threw
  /\ msgs' = msgs + 1
  /\ UNCHANGED <<impl, configUrl, iceServerUrl, serverWS, clients, nextNodeID,
                 conn, nextConn, assigned, closedIDs>>

\* 'message' on a connection handleClientConnection accepted
clientMessage(ws, data) ==
  /\ ~crashed
  /\ msgs < MaxMsgs
  /\ conn[ws].open /\ conn[ws].handlers = "client"
  /\ LET r == handleClientMessage(conn[ws].nodeID, data) IN
       /\ last' = Event("handleClientMessage", ws, data, r.sends, r.caught)
       /\ outbox' = Deliver(r.sends)
       /\ crashed' = r.threw
  /\ msgs' = msgs + 1
  /\ UNCHANGED <<impl, configUrl, iceServerUrl, serverWS, clients, nextNodeID,
                 conn, nextConn, assigned, closedIDs>>

\* Mutant: the close handler leaves the slot as it is.
ServerCloseSlotKept(ws) == serverWS

\* this.serverWS = null
ServerCloseSlot(ws) == NULL

\* Mutant: the server's close handler also empties clients.
serverCloseDropsClients(ws) ==
  /\ ~crashed
  /\ conn[ws].open /\ conn[ws].handlers = "server"
  /\ serverWS' = ServerCloseSlot(ws)
  /\ clients' = NoClients
  /\ conn' = [conn EXCEPT ![ws].open = FALSE]
  /\ last' = Event("serverClose", ws, Garbage, <<>>, FALSE)
  /\ UNCHANGED <<impl, configUrl, iceServerUrl, nextNodeID, nextConn,
                 outbox, crashed, assigned, closedIDs, msgs>>

\* 'close' on a connection handleServerConnection accepted
serverClose(ws) ==
  /\ ~crashed
  /\ conn[ws].open /\ conn[ws].handlers = "server"
  /\ serverWS' = ServerCloseSlot(ws)
  /\ conn' = [conn EXCEPT ![ws].open = FALSE]
  /\ last' = Event("serverClose", ws, Garbage, <<>>, FALSE)
  /\ UNCHANGED <<impl, configUrl, iceServerUrl, clients, nextNodeID, nextConn,
                 outbox, crashed, assigned, closedIDs, msgs>>

\* Mutant: the close handler deletes nothing.
ClientsDeleteNothing(nodeID) == clients

\* this.clients.delete(nodeID)
ClientsDelete(nodeID) == [k \in DOMAIN clients \ {nodeID} |-> clients[k]]

\* Mutant: the client's close handler tells the server about it.
clientCloseNotifies(ws) ==
  /\ ~crashed
  /\ conn[ws].open /\ conn[ws].handlers = "client"
  /\ clients' = ClientsDelete(conn[ws].nodeID)
  /\ conn' = [conn EXCEPT ![ws].open = FALSE]
  /\ closedIDs' = closedIDs \cup {conn[ws].nodeID}
  /\ LET sends == IF serverWS = NULL THEN <<>>
                  ELSE <<Send(serverWS,
                              Text(Obj([type |-> Str("clientDisconnected"),
                                        nodeID |-> Num(conn[ws].nodeID)])))>> IN
       /\ last' = Event("clientClose", ws, Garbage, sends, FALSE)
       /\ outbox' = Deliver(sends)
  /\ UNCHANGED <<impl, configUrl, iceServerUrl, serverWS, nextNodeID, nextConn,
                 crashed, assigned, msgs>>

\* 'close' on a connection handleClientConnection accepted
clientClose(ws) ==
  /\ ~crashed
  /\ conn[ws].open /\ conn[ws].handlers = "client"
  /\ clients' = ClientsDelete(conn[ws].nodeID)
  /\ conn' = [conn EXCEPT ![ws].open = FALSE]
  /\ closedIDs' = closedIDs \cup {conn[ws].nodeID}
  /\ last' = Event("clientClose", ws, Garbage, <<>>, FALSE)
  /\ UNCHANGED <<impl, configUrl, iceServerUrl, serverWS, nextNodeID, nextConn,
                 outbox, crashed, assigned, msgs>>

\* 'message' on a connection whose admission was rejected: no listener
unhandledMessage(ws, data) ==
  /\ ~crashed
  /\ msgs < MaxMsgs
  /\ conn[ws].open /\ conn[ws].handlers = "none"
  /\ last' = Event("none", ws, data, <<>>, FALSE)
  /\ msgs' = msgs + 1
  /\ UNCHANGED <<impl, configUrl, iceServerUrl, serverWS, clients, nextNodeID,
                 conn, nextConn, outbox, crashed, assigned, closedIDs>>

\* 'close' on a connection whose admission was rejected: no listener
unhandledClose(ws) ==
  /\ ~crashed
  /\ conn[ws].open /\ conn[ws].handlers = "none"
  /\ conn' = [conn EXCEPT ![ws].open = FALSE]
  /\ last' = Event("none", ws, Garbage, <<>>, FALSE)
  /\ UNCHANGED <<impl, configUrl, iceServerUrl, serverWS, clients, nextNodeID,
                 nextConn, outbox, crashed, assigned, closedIDs, msgs>>

Next ==
  \/ \E ws \in Conns : handleServerConnection(ws)
  \/ \E ws \in Conns : handleClientConnection(ws)
  \/ \E ws \in Conns, data \in Incoming : serverMessage(ws, data)
  \/ \E ws \in Conns, data \in Incoming : clientMessage(ws, data)
  \/ \E ws \in Conns : serverClose(ws)
  \/ \E ws \in Conns : clientClose(ws)
  \/ \E ws \in Conns, data \in Unheard : unhandledMessage(ws, data)
  \/ \E ws \in Conns : unhandledClose(ws)

Spec == Init /\ [][Next]_vars

\* ------------------------------------------------------------ the claims
Range(f) == {f[k] : k \in DOMAIN f}

\* the connections that act as server / as client and are open
Coordinators == {c \in Conns : conn[c].open /\ conn[c].handlers = "server"}
Participants == {c \in Conns : conn[c].open /\ conn[c].handlers = "client"}
\* the connections whose admission was refused
RejectedServers == {c \in Conns : conn[c].pool = "server" /\ conn[c].handlers = "none"}
RejectedClients == {c \in Conns : conn[c].pool = "client" /\ conn[c].handlers = "none"}

\* the text is the JSON text of an object
IsObjectText(text) == text.ok /\ text.v.kind = "obj"
\* some send of the last event went to connection c
LastSentTo(c) == \E i \in DOMAIN last.sends : last.sends[i].to = c

\* C1: Single coordinator. At most one open connection acts as server and it
\* is the one in the slot; a server connection arriving while the slot is
\* occupied is sent exactly one error and nothing else, the slot keeps the
\* original connection, and that connection goes on receiving the
\* clientConnected notifications and the relayed client messages.
C1_SingleCoordinator ==
  /\ Cardinality(Coordinators) <= 1
  /\ Coordinators \subseteq {serverWS}
  /\ \A r \in RejectedServers : outbox[r] = <<MsgError>>
  /\ (last.op = "handleServerConnection" /\ last.serverWS # NULL) =>
       /\ last.sends = <<Send(last.ws, MsgError)>>
       /\ serverWS = last.serverWS
       /\ serverWS \in Coordinators
       /\ last.ws \in RejectedServers
  /\ \A r \in RejectedServers :
       (serverWS # NULL /\ serverWS < r) =>
         /\ last.op = "handleClientConnection" => LastSentTo(serverWS)
         /\ (last.op = "handleClientMessage" /\ IsObjectText(last.data)) =>
              LastSentTo(serverWS)

\* C1's case: after a refused second server, the first one is still in the
\* slot and has just been relayed a client's message.
C1_Witness ==
  \E r \in RejectedServers :
    /\ serverWS # NULL /\ serverWS < r
    /\ last.op = "handleClientMessage" /\ IsObjectText(last.data)
    /\ Len(outbox[serverWS]) >= 3

C3_NoClientWithoutServer ==
  /\ (last.op = "handleClientConnection" /\ last.serverWS = NULL) =>
       /\ last.sends = <<Send(last.ws, MsgError)>>
       /\ outbox[last.ws] = <<MsgError>>
       /\ clients = last.clients
       /\ nextNodeID = last.nextNodeID
       /\ last.ws \notin Range(clients)
       /\ last.ws \in RejectedClients
  /\ \A r \in RejectedClients : outbox[r] = <<MsgError>> /\ r \notin Range(clients)

\* C3's case: a client arrives after the server that had admitted an earlier
\* client has closed.
C3_Witness ==
  /\ last.op = "handleClientConnection" /\ last.serverWS = NULL
  /\ last.nextNodeID > serverNodeID + 1
  /\ \E c \in Conns : conn[c].handlers = "server" /\ ~conn[c].open

\* C4: Relay server -> client. A parseable server message whose nodeID is a
\* registered number causes exactly one send, to the connection registered
\* under it, of the object without its nodeID and with every other property
\* as it came; any other parseable message (no nodeID, a nodeID that is not
\* registered, 0, a string, a closed client's) causes no send at all.
C4_RelayToClient ==
  (last.op = "handleServerMessage" /\ last.data.ok) =>
    LET v == last.data.v
        addressed == /\ v.kind = "obj"
                     /\ "nodeID" \in DOMAIN v.fields
                     /\ v.fields["nodeID"].t = "num"
                     /\ v.fields["nodeID"].n \in DOMAIN last.clients
    IN IF addressed
         THEN /\ Len(last.sends) = 1
              /\ last.sends[1].to = last.clients[v.fields["nodeID"].n]
              /\ IsObjectText(last.sends[1].text)
              /\ DOMAIN last.sends[1].text.v.fields = DOMAIN v.fields \ {"nodeID"}
              /\ \A k \in DOMAIN v.fields \ {"nodeID"} :
                   last.sends[1].text.v.fields[k] = v.fields[k]
         ELSE last.sends = <<>>

\* C4's case: the server's message was relayed to one of two registered
\* clients.
C4_Witness ==
  /\ last.op = "handleServerMessage"
  /\ Len(last.sends) = 1
  /\ Cardinality(DOMAIN last.clients) >= 2

\* the text is the JSON text of an object whose nodeID is the number n
CarriesNodeID(text, n) ==
  /\ IsObjectText(text)
  /\ "nodeID" \in DOMAIN text.v.fields
  /\ text.v.fields["nodeID"] = Num(n)
\* the two objects agree on every property other than nodeID
SameOtherFields(f, g) ==
  /\ DOMAIN f \ {"nodeID"} = DOMAIN g \ {"nodeID"}
  /\ \A k \in DOMAIN f \ {"nodeID"} : f[k] = g[k]

\* C5: Spoof resistance, client -> server. Every text the hub forwards to the
\* server because of a message of the client registered under P carries
\* nodeID = P, whatever the incoming text holds, with all other properties
\* unchanged.
C5_SpoofResistance ==
  (last.op = "handleClientMessage" /\ last.sends # <<>>) =>
    /\ Len(last.sends) = 1
    /\ last.sends[1].to = last.serverWS
    /\ CarriesNodeID(last.sends[1].text, conn[last.ws].nodeID)
    /\ SameOtherFields(last.sends[1].text.v.fields, last.data.v.fields)

\* C6: Participant disconnect cleanup. Once the client registered under K has
\* closed, K is in clients never again, and every later server message
\* addressed to K causes no send to any connection.
C6_ClosedClientDropped ==
  /\ closedIDs \cap DOMAIN clients = {}
  /\ \A c \in Conns :
       (conn[c].handlers = "client" /\ ~conn[c].open) => c \notin Range(clients)
  /\ ( /\ last.op = "handleServerMessage"
       /\ IsObjectText(last.data)
       /\ "nodeID" \in DOMAIN last.data.v.fields
       /\ last.data.v.fields["nodeID"].t = "num"
       /\ last.data.v.fields["nodeID"].n \in closedIDs ) =>
       last.sends = <<>>

\* C6's case: the server addressed a closed client's node ID while a client
\* admitted after it is registered.
C6_Witness ==
  /\ last.op = "handleServerMessage"
  /\ IsObjectText(last.data)
  /\ "nodeID" \in DOMAIN last.data.v.fields
  /\ last.data.v.fields["nodeID"].t = "num"
  /\ last.data.v.fields["nodeID"].n \in closedIDs
  /\ \E k \in DOMAIN last.clients : k > last.data.v.fields["nodeID"].n

\* C7: Coordinator disconnect and re-attachment. The server's close empties
\* the slot and leaves clients alone; a client message arriving while the
\* slot is empty causes no send and no uncaught error; a server connection
\* arriving while the slot is empty takes the slot and is sent hello with
\* nodeID 0; and a client's object or array is forwarded to whichever server
\* holds the slot, also one that attached after the client was registered,
\* the object stamped with the client's node ID.
C7_ServerReattach ==
  /\ last.op = "serverClose" => serverWS = NULL /\ clients = last.clients
  /\ (last.op = "handleClientMessage" /\ last.serverWS = NULL) =>
       last.sends = <<>> /\ ~crashed
  /\ (last.op = "handleServerConnection" /\ last.serverWS = NULL) =>
       /\ serverWS = last.ws
       /\ last.ws \in Coordinators
       /\ last.sends =
            <<Send(last.ws, Text(Obj([type |-> Str("hello"), nodeID |-> Num(0),
                                      iceServerUrl |-> Str(configUrl)])))>>
       /\ outbox[last.ws] = <<last.sends[1].text>>
  /\ ( /\ last.op = "handleClientMessage"
       /\ last.data.ok /\ last.data.v.kind \in {"obj", "arr"}
       /\ last.serverWS # NULL ) =>
       /\ Len(last.sends) = 1
       /\ last.sends[1].to = serverWS
       /\ serverWS \in Coordinators
       /\ IsObjectText(last.data) =>
            CarriesNodeID(last.sends[1].text, conn[last.ws].nodeID)

\* C7's case: a client registered under the first server has its message
\* forwarded to the server that attached after the first one closed.
C7_Witness ==
  /\ last.op = "handleClientMessage"
  /\ IsObjectText(last.data)
  /\ last.sends # <<>>
  /\ serverWS # NULL /\ last.ws < serverWS
  /\ \E c \in Conns : c < last.ws /\ conn[c].handlers = "server" /\ ~conn[c].open

\* what a successful handleClientConnection does, up to the type of the
\* notification the server is sent
ClientAdmitted(notification) ==
  (last.op = "handleClientConnection" /\ last.serverWS # NULL) =>
    LET K == last.nextNodeID IN
    /\ K \in DOMAIN clients /\ clients[K] = last.ws
    /\ K \notin DOMAIN last.clients
    /\ last.sends =
         <<Send(last.ws, Text(Obj([type |-> Str("hello"), nodeID |-> Num(K),
                                   iceServerUrl |-> Str(configUrl)]))),
           Send(last.serverWS, Text(Obj([type |-> Str(notification),
                                         nodeID |-> Num(K)])))>>

C9_NoUncaughtError ==
  /\ ~crashed
  /\ last.caught =>
       /\ last.op \in {"handleServerMessage", "handleClientMessage"}
       /\ last.sends = <<>>
       /\ serverWS = last.serverWS
       /\ clients = last.clients
       /\ nextNodeID = last.nextNodeID
  /\ serverWS # NULL => serverWS \in Coordinators
  /\ \A k \in DOMAIN clients : clients[k] \in Participants

\* C9's case: app.js has caught the TypeError of this.serverWS.send on a null
\* serverWS.
C9_Witness ==
  /\ last.caught
  /\ last.op = "handleClientMessage"
  /\ IsObjectText(last.data)
  /\ last.serverWS = NULL
  /\ impl = "js"

\* C10: Registry liveness invariant. Every key of clients maps to an open
\* connection that handleClientConnection admitted under that key; a client's
\* close removes its entry in the same step; a relay from the server only
\* ever goes to an open connection.
C10_RegistryLive ==
  /\ \A k \in DOMAIN clients :
       clients[k] \in Participants /\ conn[clients[k]].nodeID = k
  /\ last.op = "clientClose" =>
       /\ last.ws \notin Range(clients)
       /\ conn[last.ws].nodeID \notin DOMAIN clients
       /\ conn[last.ws].nodeID \in DOMAIN last.clients
  /\ last.op = "handleServerMessage" =>
       \A i \in DOMAIN last.sends : conn[last.sends[i].to].open

\* C10's case: one of two registered clients has closed.
C10_Witness ==
  /\ last.op = "clientClose"
  /\ DOMAIN clients # {}

\* the connections that arrived through the client pool
ClientPool == {c \in Conns : conn[c].pool = "client"}
\* a payload as a server's message leaves it: an object without nodeID that
\* is none of the hub's own notifications
IsServerPayload(text) ==
  /\ IsObjectText(text)
  /\ "nodeID" \notin DOMAIN text.v.fields
  /\ "type" \notin DOMAIN text.v.fields

\* C11: Participant isolation. All a client-pool connection is ever sent is
\* its own admission reply (error, or hello with its own node ID) and then
\* payloads of server messages addressed to its node ID; a client's message
\* is sent to no client-pool connection, and the hub's own texts to a client
\* name no node ID but the client's.
C11_ParticipantIsolation ==
  /\ \A c \in ClientPool :
       /\ outbox[c] # <<>>
       /\ \/ outbox[c] = <<MsgError>>
          \/ /\ conn[c].handlers = "client"
             /\ outbox[c][1] = Text(Obj([type |-> Str("hello"),
                                         nodeID |-> Num(conn[c].nodeID),
                                         iceServerUrl |-> Str(configUrl)]))
       /\ \A i \in 2..Len(outbox[c]) : IsServerPayload(outbox[c][i])
  /\ \A i \in DOMAIN last.sends :
       last.sends[i].to \in ClientPool =>
         \/ last.op = "handleClientConnection" /\ last.sends[i].to = last.ws
         \/ /\ last.op = "handleServerMessage"
            /\ IsObjectText(last.data)
            /\ "nodeID" \in DOMAIN last.data.v.fields
            /\ last.data.v.fields["nodeID"] = Num(conn[last.sends[i].to].nodeID)
            /\ SameOtherFields(last.sends[i].text.v.fields, last.data.v.fields)
            /\ IsServerPayload(last.sends[i].text)

\* C11's case: a client's message has been forwarded while another client,
\* which was relayed a server payload before, is registered.
C11_Witness ==
  /\ last.op = "handleClientMessage"
  /\ last.sends # <<>>
  /\ \E c \in Participants : c # last.ws /\ Len(outbox[c]) >= 2

\* C12: Coordinator close frame. The close of the attached server empties the
\* slot and changes nothing else: clients and nextNodeID stay as they are, no
\* other connection is closed, and nothing is sent to anyone.
C12_ServerCloseFrame ==
  [][last'.op = "serverClose" =>
       /\ serverWS = last'.ws
       /\ serverWS' = NULL
       /\ clients' = clients
       /\ nextNodeID' = nextNodeID
       /\ outbox' = outbox
       /\ last'.sends = <<>>
       /\ \A c \in Conns \ {last'.ws} : conn'[c] = conn[c]
       /\ ~crashed']_vars

\* C12's case: the server has closed while two clients are registered.
C12_Witness ==
  /\ last.op = "serverClose"
  /\ Cardinality(DOMAIN clients) >= 2
  /\ \A k \in DOMAIN clients : conn[clients[k]].open

\* C13: Participant close frame. The close of the client registered under K
\* removes the entry K from clients and does nothing else: the other entries,
\* the slot and nextNodeID stay as they are, no other connection is closed,
\* and nothing is sent to the server or to anyone else.
C13_ClientCloseFrame ==
  [][last'.op = "clientClose" =>
       LET K == conn[last'.ws].nodeID IN
       /\ K \in DOMAIN clients /\ clients[K] = last'.ws
       /\ DOMAIN clients' = DOMAIN clients \ {K}
       /\ \A k \in DOMAIN clients' : clients'[k] = clients[k]
       /\ serverWS' = serverWS
       /\ nextNodeID' = nextNodeID
       /\ outbox' = outbox
       /\ last'.sends = <<>>
       /\ \A c \in Conns \ {last'.ws} : conn'[c] = conn[c]
       /\ ~crashed']_vars

\* C13's case: one of two registered clients has closed while the server is
\* attached.
C13_Witness ==
  /\ last.op = "clientClose"
  /\ last.serverWS # NULL /\ serverWS = last.serverWS
  /\ Cardinality(DOMAIN last.clients) >= 2
  /\ DOMAIN clients # {}

\* the event is a message the Session handled
IsMessageEvent(e) == e.op \in {"handleServerMessage", "handleClientMessage"}

\* C14: Malformed payload drop. A text that is no JSON, from the server or
\* from a registered client, ends in the handler's catch clause: nothing is
\* sent to anyone, and the slot, clients, nextNodeID and every connection's
\* listeners stay as they are. The next message of the same sender, when it
\* is an object, is relayed as any other: a client's to the attached server
\* with the client's node ID, a server's to the registered client it names.
C14_MalformedDropped ==
  [][/\ (IsMessageEvent(last') /\ ~last'.data.ok) =>
          /\ last'.caught
          /\ last'.sends = <<>>
          /\ outbox' = outbox
          /\ serverWS' = serverWS
          /\ clients' = clients
          /\ nextNodeID' = nextNodeID
          /\ conn' = conn
          /\ ~crashed'
     /\ ( /\ IsMessageEvent(last) /\ ~last.data.ok
          /\ last'.op = last.op /\ last'.ws = last.ws
          /\ IsObjectText(last'.data) ) =>
          /\ (last'.op = "handleClientMessage" /\ serverWS # NULL) =>
               /\ Len(last'.sends) = 1
               /\ last'.sends[1].to = serverWS
               /\ CarriesNodeID(last'.sends[1].text, conn[last'.ws].nodeID)
               /\ outbox'[serverWS] = Append(outbox[serverWS], last'.sends[1].text)
          /\ ( /\ last'.op = "handleServerMessage"
               /\ "nodeID" \in DOMAIN last'.data.v.fields
               /\ last'.data.v.fields["nodeID"].t = "num"
               /\ last'.data.v.fields["nodeID"].n \in DOMAIN clients ) =>
               /\ Len(last'.sends) = 1
               /\ last'.sends[1].to = clients[last'.data.v.fields["nodeID"].n]
               /\ outbox'[last'.sends[1].to] =
                    Append(outbox[last'.sends[1].to], last'.sends[1].text)]_vars

\* C14's case: a registered client has sent a text that is no JSON while the
\* server is attached, and is still registered.
C14_Witness ==
  /\ last.op = "handleClientMessage"
  /\ ~last.data.ok
  /\ last.caught
  /\ serverWS # NULL
  /\ last.ws \in Participants
  /\ last.ws \in Range(clients)

\* the connections whose admission was answered with error
RejectedConns == {c \in Conns : outbox[c] # <<>> /\ outbox[c][1] = MsgError}
IsConnectionEvent(e) == e.op \in {"handleServerConnection", "handleClientConnection"}

\* C15: Rejected connections are inert. A rejected admission leaves the slot,
\* clients and nextNodeID as they are and sends the one error; afterwards the
\* rejected connection is sent nothing more, is never in the slot or in
\* clients, also not once the slot is free again, and neither its messages
\* nor its close send anything or change the slot, clients or nextNodeID.
C15_RejectedInert ==
  /\ \A r \in RejectedConns :
       /\ outbox[r] = <<MsgError>>
       /\ serverWS # r
       /\ r \notin Range(clients)
       /\ r \notin Coordinators \cup Participants
  /\ last.ws \in RejectedConns =>
       /\ serverWS = last.serverWS
       /\ clients = last.clients
       /\ nextNodeID = last.nextNodeID
       /\ ~crashed
       /\ last.sends = IF IsConnectionEvent(last)
                         THEN <<Send(last.ws, MsgError)>> ELSE <<>>

\* C15's case: the connection of a refused second server has closed while the
\* first server holds the slot.
C15_Witness ==
  /\ last.ws \in RejectedConns
  /\ ~IsConnectionEvent(last)
  /\ ~conn[last.ws].open
  /\ conn[last.ws].pool = "server"
  /\ serverWS # NULL /\ serverWS < last.ws

\* the connections handleServerConnection admitted: their first text is the
\* hello with the server's node ID
AdmittedServers ==
  {c \in Conns : outbox[c] # <<>> /\
                 outbox[c][1] = Text(Obj([type |-> Str("hello"), nodeID |-> Num(0),
                                          iceServerUrl |-> Str(configUrl)]))}

\* C16: Coordinator slot consistency. The slot holds connection c exactly
\* when c was admitted as server and has not closed yet; a server's close
\* finds the closing connection itself in the slot, so it never detaches a
\* server that attached later.
C16_SlotConsistent ==
  /\ \A c \in Conns : serverWS = c <=> (c \in AdmittedServers /\ conn[c].open)
  /\ serverWS = NULL \/ serverWS \in Conns
  /\ last.op = "serverClose" =>
       /\ last.serverWS = last.ws
       /\ last.ws \in AdmittedServers
       /\ serverWS = NULL

\* C16's case: a server is attached that was admitted after a former server
\* had closed.
C16_Witness ==
  /\ serverWS # NULL
  /\ \E c \in AdmittedServers : c < serverWS /\ ~conn[c].open

\* a client's object as the hub forwards it: it carries a numeric nodeID and
\* is none of the hub's own notifications
IsStampedRelay(text) ==
  /\ IsObjectText(text)
  /\ "nodeID" \in DOMAIN text.v.fields
  /\ text.v.fields["nodeID"].t = "num"
  /\ "type" \notin DOMAIN text.v.fields
\* the server connection c was sent the clientConnected of K before its i-th text
AnnouncedBefore(c, i, K) ==
  \E j \in 1..(i - 1) :
    outbox[c][j] = Text(Obj([type |-> Str("clientConnected"), nodeID |-> Num(K)]))
\* K was assigned to a client connection that arrived before connection c
AdmittedBefore(c, K) ==
  \E d \in Conns : d < c /\ conn[d].pool = "client" /\ conn[d].nodeID = K

\* C17 as claimed: on every server connection, each relayed client message
\* stamped with nodeID = K comes after the connected notification for K on
\* that same connection.
C17_AsClaimed ==
  \A c \in AdmittedServers : \A i \in DOMAIN outbox[c] :
    IsStampedRelay(outbox[c][i]) =>
      AnnouncedBefore(c, i, outbox[c][i].v.fields["nodeID"].n)

\* C17, amended: on every server connection, each relayed client message
\* stamped with nodeID = K comes after the clientConnected for K on that same
\* connection, unless K was assigned before that server connection attached:
\* a server that attaches later is relayed K's messages without having been
\* told about K.
C17_AnnouncedUnlessEarlier ==
  \A c \in AdmittedServers : \A i \in DOMAIN outbox[c] :
    IsStampedRelay(outbox[c][i]) =>
      \/ AnnouncedBefore(c, i, outbox[c][i].v.fields["nodeID"].n)
      \/ AdmittedBefore(c, outbox[c][i].v.fields["nodeID"].n)

\* C17's case: a server was relayed the message of a client that was admitted
\* while it was attached.
C17_Witness ==
  \E c \in AdmittedServers : \E i \in DOMAIN outbox[c] :
    /\ IsStampedRelay(outbox[c][i])
    /\ AnnouncedBefore(c, i, outbox[c][i].v.fields["nodeID"].n)
    /\ ~AdmittedBefore(c, outbox[c][i].v.fields["nodeID"].n)

\* the text is a hello
IsHello(text) ==
  /\ IsObjectText(text)
  /\ "type" \in DOMAIN text.v.fields
  /\ text.v.fields["type"] = Str("hello")

\* C18: hello comes first. On every admitted connection the first text sent
\* is its hello (nodeID 0 for a server, its own node ID for a client) and no
\* later text is a hello, so every clientConnected and every relayed text
\* comes after it; within one client admission the client's hello is sent
\* before the server's clientConnected.
C18_HelloFirst ==
  /\ \A c \in Conns :
       conn[c].handlers # "none" =>
         /\ outbox[c] # <<>>
         /\ outbox[c][1] = Text(Obj([type |-> Str("hello"),
                                     nodeID |-> Num(conn[c].nodeID),
                                     iceServerUrl |-> Str(configUrl)]))
         /\ conn[c].handlers = "server" => conn[c].nodeID = 0
         /\ \A i \in 2..Len(outbox[c]) : ~IsHello(outbox[c][i])
  /\ (last.op = "handleClientConnection" /\ last.serverWS # NULL) =>
       /\ Len(last.sends) = 2
       /\ last.sends[1].to = last.ws /\ IsHello(last.sends[1].text)
       /\ last.sends[2].to = last.serverWS /\ ~IsHello(last.sends[2].text)

\* C18's case: a server has been sent hello, clientConnected and a relayed
\* client message, and the client hello and a relayed server payload.
C18_Witness ==
  /\ serverWS # NULL
  /\ Len(outbox[serverWS]) >= 3
  /\ \E c \in Participants : Len(outbox[c]) >= 2

\* C19: The two builds agree. From every state a run reaches, and for every
\* event, the Session of app.js and the Session of app.ts send the same texts
\* to the same connections in the same order, and both end without an
\* uncaught error, leaving the slot, clients and nextNodeID as the step that
\* was taken left them; in particular a client's message without a server
\* sends nothing in either build, and a server message naming an
\* unregistered node ID sends nothing.
C19_BuildsAgree ==
  [][/\ last'.op = "handleClientMessage" =>
          \A b \in Impls :
            LET r == handleClientMessageIn(b, conn[last'.ws].nodeID, last'.data) IN
            /\ last'.sends = r.sends
            /\ outbox' = Deliver(r.sends)
            /\ crashed' = r.threw
            /\ serverWS = NULL => r.sends = <<>>
            /\ UNCHANGED <<serverWS, clients, nextNodeID>>
     /\ (last'.op = "handleClientConnection" /\ serverWS # NULL) =>
          \A b \in Impls :
            /\ last'.sends = ClientConnectionSendsIn(b, last'.ws, nextNodeID)
            /\ outbox' = Deliver(ClientConnectionSendsIn(b, last'.ws, nextNodeID))
            /\ ~crashed'
     /\ ( /\ last'.op = "handleServerMessage"
          /\ IsObjectText(last'.data)
          /\ "nodeID" \in DOMAIN last'.data.v.fields
          /\ last'.data.v.fields["nodeID"].t = "num"
          /\ last'.data.v.fields["nodeID"].n \notin DOMAIN clients ) =>
          /\ last'.sends = <<>>
          /\ outbox' = outbox
          /\ ~crashed'
          /\ UNCHANGED <<serverWS, clients, nextNodeID>>]_vars

\* C19's case: app.ts has skipped the send of a client's object because no
\* server is attached, where app.js throws and catches.
C19_Witness ==
  /\ impl = "ts"
  /\ last.op = "handleClientMessage"
  /\ IsObjectText(last.data)
  /\ last.serverWS = NULL
  /\ ~last.caught
  /\ last.sends = <<>>
====
